---- MODULE Spec2Model ----
(***************************************************************************)
(* Model of binref.go (package gabbygrove): the BinaryRef tagged reference *)
(* (members fr, mr, cr), its binary and JSON marshalling, typed retrieval, *)
(* its constructors and the BinRefExt codec adapter.                       *)
(*                                                                         *)
(* A BinaryRef is a record of three members; a nil pointer member is the   *)
(* record NilRef.  Byte slices are sequences of 0..255; a nil slice is     *)
(* <<>>.  Every call of a method is one action; its inputs, outputs,       *)
(* returned error and whether it panicked are recorded in the variables    *)
(* op, arg, want, data, isBinRef, isBytes, out, json, ret, err and panicked.  *)
(***************************************************************************)
EXTENDS Integers, Sequences, FiniteSets, TLC

VARIABLES
    ref,        \* the BinaryRef the methods are called on
    dec,        \* a second, fresh BinaryRef that marshalled bytes are decoded into
    op,         \* the function called last
    arg,        \* its refs.Ref argument
    want,       \* its RefType argument
    data,       \* its []byte argument
    isBinRef,   \* ConvertExt/UpdateExt: the first argument is a *BinaryRef
    isBytes,    \* UpdateExt: the second argument is a []byte
    out,        \* the []byte it returned (nil is <<>>)
    json,       \* the JSON text MarshalJSON returned (nil is <<>>)
    ret,        \* the refs.Ref it returned
    err,        \* the error it returned
    panicked    \* it panicked instead of returning

vars == <<ref, dec, op, arg, want, data, isBinRef, isBytes, out, json, ret, err, panicked>>

----------------------------------------------------------------------------
(* Bounds of the model *)

\* number of distinct 32-byte payloads (keys, hashes) the inputs draw from
NumPayloads == 2

\* input lengths around binrefSize that UnmarshalBinary/refFromPubKey are fed
LenSlack == 1

----------------------------------------------------------------------------
(* Program constants *)

RefTypeUndefined == 0
RefTypeFeed == 1
RefTypeMessage == 2
RefTypeContent == 3

binrefSize == 33

PublicKeySize == 32

\* the length of a hash of a MessageRef / ContentRef
HashSize == 32

RefAlgoFeedGabby == "ggfeed-v1"
RefAlgoMessageGabby == "ggmsg-v1"
RefAlgoContentGabby == "gabby-v1-content"

\* algorithms of the reference library other than the gabby ones
RefAlgoFeedSSB1 == "ed25519"
RefAlgoMessageSSB1 == "sha256"
RefAlgoOther == "sha256"

\* the error values the functions return; NoErr is Go's nil error
NoErr == "nil"
ErrMultipleRefs == "more than one ref in binref"
ErrInvalidLen == "binref: invalid len"
ErrInvalidBinrefType == "unmarshal: invalid binref type"
ErrMarshalContentAlgo == "invalid binary content ref for feed"
ErrUnmarshalContentAlgo == "unmarshal: invalid binary content ref for feed"
ErrAllNil == "should not all be nil"
ErrGetRefInvalid == "GetRef: invalid reference"
ErrGetRefDiffers == "GetRef: asked for type differs"
ErrGetRefType == "GetRef: invalid ref type"
ErrFromRefType == "fromRef: invalid ref type"
ErrInvalidPubKey == "invalid public key"
ErrRefLen == "ssb: Invalid reference len"
ErrRefAlgo == "ssb: Invalid reference algorithm"
ErrContentRefLen == "contentRef: invalid len"
ErrContentRefType == "unmarshal: invalid contentRef type"
ErrContentRefMarshal == "contentRef/Marshal: invalid binref type"

----------------------------------------------------------------------------
(* Values *)

Byte == 0..255

\* a nil pointer to a reference / a nil refs.Ref
NilRef == [type |-> "nil", algo |-> "", bytes |-> <<>>]

\* the zero value of BinaryRef
ZeroBinaryRef == [fr |-> NilRef, mr |-> NilRef, cr |-> NilRef]

\* the i-th 32-byte payload; payload 0 is all zero
Payload(i) == [j \in 1..HashSize |-> (i * j * 37) % 256]

Payloads == {Payload(i) : i \in 0..(NumPayloads - 1)}

\* s[from:] of Go for 0 <= from <= len(s)
SliceFrom(s, from) == SubSeq(s, from + 1, Len(s))

\* the first n bytes of s extended by zero bytes: a byte slice of length n
Resize(s, n) == [j \in 1..n |-> IF j <= Len(s) THEN s[j] ELSE 0]

FeedRefs == {[type |-> "FeedRef", algo |-> a, bytes |-> p] :
                a \in {RefAlgoFeedGabby, RefAlgoFeedSSB1}, p \in Payloads}

MessageRefs == {[type |-> "MessageRef", algo |-> a, bytes |-> p] :
                a \in {RefAlgoMessageGabby, RefAlgoMessageSSB1}, p \in Payloads}

ContentRefs == {[type |-> "ContentRef", algo |-> a, bytes |-> p] :
                a \in {RefAlgoContentGabby, RefAlgoOther}, p \in Payloads}

\* a refs.Ref of a type that is none of the three (e.g. a BlobRef)
OtherRefs == {[type |-> "BlobRef", algo |-> RefAlgoOther, bytes |-> p] : p \in Payloads}

\* the values a caller hands to NewBinaryRef
RefValues == FeedRefs \cup MessageRefs \cup ContentRefs \cup OtherRefs

\* the lengths of the byte slices handed to UnmarshalBinary
DataLens == {0, 1} \cup ((binrefSize - LenSlack)..(binrefSize + LenSlack))

\* the first bytes of the byte slices handed to UnmarshalBinary
Discriminants == {0, 1, 2, 3, 4, 255}

\* the byte slices handed to UnmarshalBinary
DataValues == {Resize(<<d>> \o p, n) : d \in Discriminants, p \in Payloads, n \in DataLens}

\* the public keys handed to refFromPubKey
PubKeyValues == {Resize(p, n) : p \in Payloads,
                    n \in (PublicKeySize - LenSlack)..(PublicKeySize + LenSlack)}

RefTypes == {RefTypeUndefined, RefTypeFeed, RefTypeMessage, RefTypeContent}

----------------------------------------------------------------------------
(* Collaborators: the reference library (go.mindeco.de/ssb-refs) and the   *)
(* ContentRef type of this package                                         *)

\* refs.NewFeedRefFromBytes(b, algo): a FeedRef holding a copy of b
NewFeedRefFromBytes(b, algo) ==
    IF algo \notin {RefAlgoFeedGabby, RefAlgoFeedSSB1}
    THEN [ref |-> NilRef, err |-> ErrRefAlgo]
    ELSE IF Len(b) # PublicKeySize
    THEN [ref |-> NilRef, err |-> ErrRefLen]
    ELSE [ref |-> [type |-> "FeedRef", algo |-> algo, bytes |-> b], err |-> NoErr]

\* refs.NewMessageRefFromBytes(b, algo): a MessageRef holding a copy of b
NewMessageRefFromBytes(b, algo) ==
    IF algo \notin {RefAlgoMessageGabby, RefAlgoMessageSSB1}
    THEN [ref |-> NilRef, err |-> ErrRefAlgo]
    ELSE IF Len(b) # HashSize
    THEN [ref |-> NilRef, err |-> ErrRefLen]
    ELSE [ref |-> [type |-> "MessageRef", algo |-> algo, bytes |-> b], err |-> NoErr]

\* FeedRef.PubKey(): the 32 bytes of the public key
PubKey(fr) == fr.bytes

\* MessageRef.CopyHashTo(hd): copies the hash into a buffer of n bytes
CopyHashTo(mr, n) ==
    IF n # Len(mr.bytes)
    THEN [bytes |-> Resize(<<>>, n), err |-> ErrRefLen]
    ELSE [bytes |-> mr.bytes, err |-> NoErr]

\* the algorithm tag byte of the binary form of a ContentRef
ContentTagGabby == 2

\* ContentRef.MarshalBinary(): [algorithm tag byte] ++ [32 bytes]
ContentRefMarshalBinary(cr) ==
    IF cr.algo = RefAlgoContentGabby
    THEN [bytes |-> <<ContentTagGabby>> \o cr.bytes, err |-> NoErr]
    ELSE [bytes |-> <<>>, err |-> ErrContentRefMarshal]

\* ContentRef.UnmarshalBinary(b): accepts [algorithm tag byte] ++ [32 bytes]
ContentRefUnmarshalBinary(b) ==
    IF Len(b) # 1 + HashSize
    THEN [ref |-> NilRef, err |-> ErrContentRefLen]
    ELSE IF b[1] # ContentTagGabby
    THEN [ref |-> NilRef, err |-> ErrContentRefType]
    ELSE [ref |-> [type |-> "ContentRef", algo |-> RefAlgoContentGabby,
                   bytes |-> SliceFrom(b, 1)],
          err |-> NoErr]

\* the sigil the canonical string form of a reference starts with
Sigil(r) ==
    CASE r.type = "FeedRef" -> "@"
      [] r.type = "MessageRef" -> "%"
      [] OTHER -> "!"

\* r.Ref(): the canonical string <sigil><base64 of the bytes>.<algo>,
\* kept as the sequence of its parts
RefString(r) == <<Sigil(r), r.bytes, ".", r.algo>>

----------------------------------------------------------------------------
(* binref.go *)

IsSet(m) == m.type # "nil"

\* the number of members of r that are not nil (i of valid())
NumSet(r) ==
    (IF IsSet(r.fr) THEN 1 ELSE 0) + (IF IsSet(r.mr) THEN 1 ELSE 0)
        + (IF IsSet(r.cr) THEN 1 ELSE 0)

\* func (ref BinaryRef) valid() (RefType, error)
valid(r) ==
    LET t1 == IF IsSet(r.fr) THEN RefTypeFeed ELSE RefTypeUndefined
        t2 == IF IsSet(r.mr) THEN RefTypeMessage ELSE t1
        t3 == IF IsSet(r.cr) THEN RefTypeContent ELSE t2
    IN  IF NumSet(r) > 1
        THEN [t |-> RefTypeUndefined, err |-> ErrMultipleRefs]
        ELSE [t |-> t3, err |-> NoErr]

\* MarshalBinary with the content case returning the binary form of the
\* ContentRef as it is, without the 0x03 discriminant in place of its tag
MarshalBinary_NoReTag(r) ==
    LET v == valid(r)
    IN  IF v.err # NoErr
        THEN [bytes |-> <<>>, err |-> v.err, panics |-> FALSE]
        ELSE CASE v.t = RefTypeFeed ->
                    [bytes |-> <<1>> \o PubKey(r.fr), err |-> NoErr, panics |-> FALSE]
               [] v.t = RefTypeMessage ->
                    LET hd == CopyHashTo(r.mr, HashSize)
                    IN  [bytes |-> <<2>> \o hd.bytes, err |-> hd.err, panics |-> FALSE]
               [] v.t = RefTypeContent ->
                    IF r.cr.algo # RefAlgoContentGabby
                    THEN [bytes |-> <<>>, err |-> ErrMarshalContentAlgo, panics |-> FALSE]
                    ELSE LET c == ContentRefMarshalBinary(r.cr)
                         IN  [bytes |-> c.bytes, err |-> c.err, panics |-> FALSE]
               [] OTHER ->
                    [bytes |-> <<>>, err |-> NoErr, panics |-> FALSE]

\* MarshalBinary with the content case appending crBytes instead of
\* crBytes[1:]
MarshalBinary_KeepsAlgoByte(r) ==
    LET v == valid(r)
    IN  IF v.err # NoErr
        THEN [bytes |-> <<>>, err |-> v.err, panics |-> FALSE]
        ELSE CASE v.t = RefTypeFeed ->
                    [bytes |-> <<1>> \o PubKey(r.fr), err |-> NoErr, panics |-> FALSE]
               [] v.t = RefTypeMessage ->
                    LET hd == CopyHashTo(r.mr, HashSize)
                    IN  [bytes |-> <<2>> \o hd.bytes, err |-> hd.err, panics |-> FALSE]
               [] v.t = RefTypeContent ->
                    IF r.cr.algo # RefAlgoContentGabby
                    THEN [bytes |-> <<>>, err |-> ErrMarshalContentAlgo, panics |-> FALSE]
                    ELSE LET c == ContentRefMarshalBinary(r.cr)
                         IN  [bytes |-> <<3>> \o c.bytes, err |-> c.err, panics |-> FALSE]
               [] OTHER ->
                    [bytes |-> <<>>, err |-> NoErr, panics |-> FALSE]

\* MarshalBinary without the check of the content algorithm
MarshalBinary_NoAlgoGate(r) ==
    LET v == valid(r)
    IN  IF v.err # NoErr
        THEN [bytes |-> <<>>, err |-> v.err, panics |-> FALSE]
        ELSE CASE v.t = RefTypeFeed ->
                    [bytes |-> <<1>> \o PubKey(r.fr), err |-> NoErr, panics |-> FALSE]
               [] v.t = RefTypeMessage ->
                    LET hd == CopyHashTo(r.mr, HashSize)
                    IN  [bytes |-> <<2>> \o hd.bytes, err |-> hd.err, panics |-> FALSE]
               [] v.t = RefTypeContent ->
                    LET c == ContentRefMarshalBinary(r.cr)
                    IN  IF Len(c.bytes) < 1
                        THEN [bytes |-> <<>>, err |-> c.err, panics |-> TRUE]
                        ELSE [bytes |-> <<3>> \o SliceFrom(c.bytes, 1),
                              err |-> c.err, panics |-> FALSE]
               [] OTHER ->
                    [bytes |-> <<>>, err |-> NoErr, panics |-> FALSE]

\* func (ref BinaryRef) MarshalBinary() ([]byte, error)
MarshalBinary(r) ==
    LET v == valid(r)
    IN  IF v.err # NoErr
        THEN [bytes |-> <<>>, err |-> v.err, panics |-> FALSE]
        ELSE CASE v.t = RefTypeFeed ->
                    [bytes |-> <<1>> \o PubKey(r.fr), err |-> NoErr, panics |-> FALSE]
               [] v.t = RefTypeMessage ->
                    LET hd == CopyHashTo(r.mr, HashSize)
                    IN  [bytes |-> <<2>> \o hd.bytes, err |-> hd.err, panics |-> FALSE]
               [] v.t = RefTypeContent ->
                    IF r.cr.algo # RefAlgoContentGabby
                    THEN [bytes |-> <<>>, err |-> ErrMarshalContentAlgo, panics |-> FALSE]
                    ELSE LET c == ContentRefMarshalBinary(r.cr)
                         IN  IF Len(c.bytes) < 1
                             THEN [bytes |-> <<>>, err |-> c.err, panics |-> TRUE]
                             ELSE [bytes |-> <<3>> \o SliceFrom(c.bytes, 1),
                                   err |-> c.err, panics |-> FALSE]
               [] OTHER ->
                    [bytes |-> <<>>, err |-> NoErr, panics |-> FALSE]

\* UnmarshalBinary with the length check n < binrefSize: longer inputs pass
UnmarshalBinary_LenLowerBound(r, d) ==
    IF Len(d) < binrefSize
    THEN [ref |-> r, err |-> ErrInvalidLen]
    ELSE CASE d[1] = 1 ->
                LET p == NewFeedRefFromBytes(SliceFrom(d, 1), RefAlgoFeedGabby)
                IN  IF p.err # NoErr
                    THEN [ref |-> r, err |-> p.err]
                    ELSE [ref |-> [r EXCEPT !.fr = p.ref], err |-> NoErr]
           [] d[1] = 2 ->
                LET p == NewMessageRefFromBytes(SliceFrom(d, 1), RefAlgoMessageGabby)
                IN  IF p.err # NoErr
                    THEN [ref |-> r, err |-> p.err]
                    ELSE [ref |-> [r EXCEPT !.mr = p.ref], err |-> NoErr]
           [] d[1] = 3 ->
                LET newCR == ContentRefUnmarshalBinary(<<2>> \o SliceFrom(d, 1))
                IN  IF newCR.err # NoErr
                    THEN [ref |-> r, err |-> newCR.err]
                    ELSE IF newCR.ref.algo # RefAlgoContentGabby
                    THEN [ref |-> r, err |-> ErrUnmarshalContentAlgo]
                    ELSE [ref |-> [r EXCEPT !.cr = newCR.ref], err |-> NoErr]
           [] OTHER ->
                [ref |-> r, err |-> ErrInvalidBinrefType]

\* UnmarshalBinary that starts with *ref = BinaryRef{}
UnmarshalBinary_ResetsReceiver(r, d) ==
    IF Len(d) # binrefSize
    THEN [ref |-> ZeroBinaryRef, err |-> ErrInvalidLen]
    ELSE CASE d[1] = 1 ->
                LET p == NewFeedRefFromBytes(SliceFrom(d, 1), RefAlgoFeedGabby)
                IN  IF p.err # NoErr
                    THEN [ref |-> ZeroBinaryRef, err |-> p.err]
                    ELSE [ref |-> [ZeroBinaryRef EXCEPT !.fr = p.ref], err |-> NoErr]
           [] d[1] = 2 ->
                LET p == NewMessageRefFromBytes(SliceFrom(d, 1), RefAlgoMessageGabby)
                IN  IF p.err # NoErr
                    THEN [ref |-> ZeroBinaryRef, err |-> p.err]
                    ELSE [ref |-> [ZeroBinaryRef EXCEPT !.mr = p.ref], err |-> NoErr]
           [] d[1] = 3 ->
                LET newCR == ContentRefUnmarshalBinary(<<2>> \o SliceFrom(d, 1))
                IN  IF newCR.err # NoErr
                    THEN [ref |-> ZeroBinaryRef, err |-> newCR.err]
                    ELSE IF newCR.ref.algo # RefAlgoContentGabby
                    THEN [ref |-> ZeroBinaryRef, err |-> ErrUnmarshalContentAlgo]
                    ELSE [ref |-> [ZeroBinaryRef EXCEPT !.cr = newCR.ref], err |-> NoErr]
           [] OTHER ->
                [ref |-> ZeroBinaryRef, err |-> ErrInvalidBinrefType]

\* func (ref *BinaryRef) UnmarshalBinary(data []byte) error
\* the receiver after the call and the returned error
UnmarshalBinary(r, d) ==
    IF Len(d) # binrefSize
    THEN [ref |-> r, err |-> ErrInvalidLen]
    ELSE CASE d[1] = 1 ->
                LET p == NewFeedRefFromBytes(SliceFrom(d, 1), RefAlgoFeedGabby)
                IN  IF p.err # NoErr
                    THEN [ref |-> r, err |-> p.err]
                    ELSE [ref |-> [r EXCEPT !.fr = p.ref], err |-> NoErr]
           [] d[1] = 2 ->
                LET p == NewMessageRefFromBytes(SliceFrom(d, 1), RefAlgoMessageGabby)
                IN  IF p.err # NoErr
                    THEN [ref |-> r, err |-> p.err]
                    ELSE [ref |-> [r EXCEPT !.mr = p.ref], err |-> NoErr]
           [] d[1] = 3 ->
                LET newCR == ContentRefUnmarshalBinary(<<2>> \o SliceFrom(d, 1))
                IN  IF newCR.err # NoErr
                    THEN [ref |-> r, err |-> newCR.err]
                    ELSE IF newCR.ref.algo # RefAlgoContentGabby
                    THEN [ref |-> r, err |-> ErrUnmarshalContentAlgo]
                    ELSE [ref |-> [r EXCEPT !.cr = newCR.ref], err |-> NoErr]
           [] OTHER ->
                [ref |-> r, err |-> ErrInvalidBinrefType]

\* func (ref *BinaryRef) Size() int
Size(r) == binrefSize

\* func bytestr(r refs.Ref) []byte
bytestr(r) == <<"\"">> \o RefString(r) \o <<"\"">>

\* func (ref BinaryRef) MarshalJSON() ([]byte, error)
MarshalJSON(r) ==
    IF IsSet(r.fr) THEN [bytes |-> bytestr(r.fr), err |-> NoErr]
    ELSE IF IsSet(r.mr) THEN [bytes |-> bytestr(r.mr), err |-> NoErr]
    ELSE IF IsSet(r.cr) THEN [bytes |-> bytestr(r.cr), err |-> NoErr]
    ELSE [bytes |-> <<>>, err |-> ErrAllNil]

\* GetRef without the comparison of the kind held with the kind asked for
GetRef_NoKindCheck(r, t) ==
    LET v == valid(r)
    IN  IF v.err # NoErr
        THEN [ref |-> NilRef, err |-> ErrGetRefInvalid]
        ELSE CASE t = RefTypeFeed -> [ref |-> r.fr, err |-> NoErr]
               [] t = RefTypeMessage -> [ref |-> r.mr, err |-> NoErr]
               [] t = RefTypeContent -> [ref |-> r.cr, err |-> NoErr]
               [] OTHER -> [ref |-> NilRef, err |-> ErrGetRefType]

\* func (ref BinaryRef) GetRef(t RefType) (refs.Ref, error)
GetRef(r, t) ==
    LET v == valid(r)
    IN  IF v.err # NoErr
        THEN [ref |-> NilRef, err |-> ErrGetRefInvalid]
        ELSE IF v.t # t
        THEN [ref |-> NilRef, err |-> ErrGetRefDiffers]
        ELSE CASE t = RefTypeFeed -> [ref |-> r.fr, err |-> NoErr]
               [] t = RefTypeMessage -> [ref |-> r.mr, err |-> NoErr]
               [] t = RefTypeContent -> [ref |-> r.cr, err |-> NoErr]
               [] OTHER -> [ref |-> NilRef, err |-> ErrGetRefType]

\* func fromRef(r refs.Ref) (BinaryRef, error)
fromRef(r) ==
    CASE r.type = "FeedRef" ->
            [ref |-> [ZeroBinaryRef EXCEPT !.fr = r], err |-> NoErr]
      [] r.type = "MessageRef" ->
            [ref |-> [ZeroBinaryRef EXCEPT !.mr = r], err |-> NoErr]
      [] r.type = "ContentRef" ->
            [ref |-> [ZeroBinaryRef EXCEPT !.cr = r], err |-> NoErr]
      [] OTHER ->
            [ref |-> ZeroBinaryRef, err |-> ErrFromRefType]

\* func NewBinaryRef(r refs.Ref) (BinaryRef, error)
NewBinaryRef(r) == fromRef(r)

\* func refFromPubKey(pk ed25519.PublicKey) (*BinaryRef, error)
\* isNil: the returned pointer is nil
refFromPubKey(pk) ==
    IF Len(pk) # PublicKeySize
    THEN [isNil |-> TRUE, ref |-> ZeroBinaryRef, err |-> ErrInvalidPubKey]
    ELSE LET p == NewFeedRefFromBytes(pk, RefAlgoFeedGabby)
         IN  [isNil |-> FALSE, ref |-> [ZeroBinaryRef EXCEPT !.fr = p.ref], err |-> p.err]

\* ConvertExt that drops the error of MarshalBinary and returns its bytes
ConvertExt_SwallowsError(vIsBinRef, r) ==
    IF ~vIsBinRef
    THEN [bytes |-> <<>>, panics |-> TRUE]
    ELSE LET m == MarshalBinary(r)
         IN  [bytes |-> m.bytes, panics |-> m.panics]

\* func (x BinRefExt) ConvertExt(v interface{}) interface{}
\* vIsBinRef: v is a *BinaryRef, and then it points to r
ConvertExt(vIsBinRef, r) ==
    IF ~vIsBinRef
    THEN [bytes |-> <<>>, panics |-> TRUE]
    ELSE LET m == MarshalBinary(r)
         IN  IF m.panics \/ m.err # NoErr
             THEN [bytes |-> <<>>, panics |-> TRUE]
             ELSE [bytes |-> m.bytes, panics |-> FALSE]

\* func (x BinRefExt) UpdateExt(dst interface{}, src interface{})
\* dstIsBinRef: dst is a *BinaryRef, and then it points to r; srcIsBytes: src
\* is a []byte, and then it is d
UpdateExt(dstIsBinRef, r, srcIsBytes, d) ==
    IF ~dstIsBinRef
    THEN [ref |-> r, panics |-> TRUE]
    ELSE IF ~srcIsBytes
    THEN [ref |-> r, panics |-> TRUE]
    ELSE LET u == UnmarshalBinary(r, d)
         IN  IF u.err # NoErr
             THEN [ref |-> u.ref, panics |-> TRUE]
             ELSE [ref |-> u.ref, panics |-> FALSE]

----------------------------------------------------------------------------
(* The calls *)

Init ==
    /\ ref = ZeroBinaryRef
    /\ dec = ZeroBinaryRef
    /\ op = "init"
    /\ arg = NilRef
    /\ want = RefTypeUndefined
    /\ data = <<>>
    /\ isBinRef = TRUE
    /\ isBytes = TRUE
    /\ out = <<>>
    /\ json = <<>>
    /\ ret = NilRef
    /\ err = NoErr
    /\ panicked = FALSE

\* what a call that does not use them leaves in the argument/result variables
NoArgs ==
    /\ arg' = NilRef
    /\ want' = RefTypeUndefined
    /\ data' = <<>>
    /\ isBinRef' = TRUE
    /\ isBytes' = TRUE

NoResults ==
    /\ out' = <<>>
    /\ json' = <<>>
    /\ ret' = NilRef
    /\ dec' = ZeroBinaryRef

\* var br BinaryRef
CallZero ==
    /\ op' = "zero"
    /\ ref' = ZeroBinaryRef
    /\ NoArgs /\ NoResults
    /\ err' = NoErr
    /\ panicked' = FALSE

\* br, err := NewBinaryRef(r)
CallNewBinaryRef ==
    \E r \in RefValues :
        LET res == NewBinaryRef(r)
        IN  /\ op' = "NewBinaryRef"
            /\ arg' = r
            /\ ref' = res.ref
            /\ err' = res.err
            /\ want' = RefTypeUndefined /\ data' = <<>>
            /\ isBinRef' = TRUE /\ isBytes' = TRUE
            /\ NoResults
            /\ panicked' = FALSE

\* br, err := refFromPubKey(pk); a nil result leaves no new BinaryRef
CallRefFromPubKey ==
    \E pk \in PubKeyValues :
        LET res == refFromPubKey(pk)
        IN  /\ op' = "refFromPubKey"
            /\ data' = pk
            /\ ref' = IF res.isNil THEN ref ELSE res.ref
            /\ err' = res.err
            /\ arg' = NilRef /\ want' = RefTypeUndefined
            /\ isBinRef' = TRUE /\ isBytes' = TRUE
            /\ NoResults
            /\ panicked' = FALSE

\* err := ref.UnmarshalBinary(d)
CallUnmarshalBinary ==
    \E d \in DataValues :
        LET res == UnmarshalBinary(ref, d)
        IN  /\ op' = "UnmarshalBinary"
            /\ data' = d
            /\ ref' = res.ref
            /\ err' = res.err
            /\ arg' = NilRef /\ want' = RefTypeUndefined
            /\ isBinRef' = TRUE /\ isBytes' = TRUE
            /\ NoResults
            /\ panicked' = FALSE

\* b, err := ref.MarshalBinary()
CallMarshalBinary ==
    LET res == MarshalBinary(ref)
    IN  /\ op' = "MarshalBinary"
        /\ out' = res.bytes
        /\ err' = res.err
        /\ panicked' = res.panics
        /\ json' = <<>> /\ ret' = NilRef /\ dec' = ZeroBinaryRef
        /\ NoArgs
        /\ UNCHANGED ref

\* var fresh BinaryRef; err := fresh.UnmarshalBinary(b), b the bytes that
\* ref.MarshalBinary() just returned
CallRoundTrip ==
    /\ op = "MarshalBinary"
    /\ err = NoErr
    /\ ~panicked
    /\ LET res == UnmarshalBinary(ZeroBinaryRef, out)
       IN  /\ op' = "RoundTrip"
           /\ data' = out
           /\ dec' = res.ref
           /\ err' = res.err
    /\ panicked' = FALSE
    /\ UNCHANGED <<ref, arg, want, isBinRef, isBytes, out, json, ret>>

\* b, err := ref.MarshalJSON()
CallMarshalJSON ==
    LET res == MarshalJSON(ref)
    IN  /\ op' = "MarshalJSON"
        /\ json' = res.bytes
        /\ err' = res.err
        /\ out' = <<>> /\ ret' = NilRef /\ dec' = ZeroBinaryRef
        /\ NoArgs
        /\ panicked' = FALSE
        /\ UNCHANGED ref

\* r, err := ref.GetRef(t)
CallGetRef ==
    \E w \in RefTypes :
        LET res == GetRef(ref, w)
        IN  /\ op' = "GetRef"
            /\ want' = w
            /\ ret' = res.ref
            /\ err' = res.err
            /\ arg' = NilRef /\ data' = <<>>
            /\ isBinRef' = TRUE /\ isBytes' = TRUE
            /\ out' = <<>> /\ json' = <<>> /\ dec' = ZeroBinaryRef
            /\ panicked' = FALSE
            /\ UNCHANGED ref

\* b := BinRefExt{}.ConvertExt(v), v either &ref or a value of another type
CallConvertExt ==
    \E isBR \in BOOLEAN :
        LET res == ConvertExt(isBR, ref)
        IN  /\ op' = "ConvertExt"
            /\ isBinRef' = isBR
            /\ out' = res.bytes
            /\ panicked' = res.panics
            /\ err' = NoErr
            /\ arg' = NilRef /\ want' = RefTypeUndefined /\ data' = <<>>
            /\ isBytes' = TRUE
            /\ json' = <<>> /\ ret' = NilRef /\ dec' = ZeroBinaryRef
            /\ UNCHANGED ref

\* BinRefExt{}.UpdateExt(dst, src), dst either &ref or a value of another
\* type, src either a []byte or a value of another type
CallUpdateExt ==
    \E isBR \in BOOLEAN, isB \in BOOLEAN :
      \E d \in (IF isB THEN DataValues ELSE {<<>>}) :
        LET res == UpdateExt(isBR, ref, isB, d)
        IN  /\ op' = "UpdateExt"
            /\ isBinRef' = isBR
            /\ isBytes' = isB
            /\ data' = d
            /\ ref' = res.ref
            /\ panicked' = res.panics
            /\ err' = NoErr
            /\ arg' = NilRef /\ want' = RefTypeUndefined
            /\ NoResults

Next ==
    \/ CallZero
    \/ CallNewBinaryRef
    \/ CallRefFromPubKey
    \/ CallUnmarshalBinary
    \/ CallMarshalBinary
    \/ CallRoundTrip
    \/ CallMarshalJSON
    \/ CallGetRef
    \/ CallConvertExt
    \/ CallUpdateExt

Spec == Init /\ [][Next]_vars

----------------------------------------------------------------------------
(* Properties *)

\* the member of r that is set, for a BinaryRef with exactly one member
ActiveMember(r) ==
    IF IsSet(r.fr) THEN r.fr ELSE IF IsSet(r.mr) THEN r.mr ELSE r.cr

\* the kind of the member of r that is set
ActiveKind(r) ==
    IF IsSet(r.fr) THEN RefTypeFeed
    ELSE IF IsSet(r.mr) THEN RefTypeMessage
    ELSE IF IsSet(r.cr) THEN RefTypeContent
    ELSE RefTypeUndefined

\* what NewBinaryRef builds from a feed reference, a message reference or a
\* content reference of the gabby content algorithm: exactly one member,
\* and a content member has the gabby algorithm
Encodable(r) ==
    /\ NumSet(r) = 1
    /\ IsSet(r.cr) => r.cr.algo = RefAlgoContentGabby

ZeroKey == [j \in 1..PublicKeySize |-> 0]

\* C1: round trip.  MarshalBinary of a BinaryRef holding one feed, message
\* or gabby content reference succeeds, and UnmarshalBinary of these bytes
\* into a fresh BinaryRef succeeds and yields exactly one member of the same
\* kind with the same 32 payload bytes.
C1_RoundTrip ==
    /\ (op = "MarshalBinary" /\ Encodable(ref)) => (err = NoErr /\ ~panicked)
    /\ (op = "RoundTrip" /\ Encodable(ref)) =>
            /\ err = NoErr
            /\ NumSet(dec) = 1
            /\ ActiveKind(dec) = ActiveKind(ref)
            /\ ActiveMember(dec).bytes = ActiveMember(ref).bytes
            /\ Len(ActiveMember(dec).bytes) = HashSize

\* a content reference built by NewBinaryRef was marshalled and decoded
\* into the fresh BinaryRef
C1_Witness ==
    /\ op = "RoundTrip"
    /\ Encodable(ref)
    /\ IsSet(ref.cr)
    /\ IsSet(dec.cr)
    /\ dec.cr.bytes = Payload(1)

\* C2: invariant I1, at most one of fr, mr, cr is set, in every state
\* reached by NewBinaryRef, refFromPubKey and UnmarshalBinary calls.
C2_AtMostOneMember == NumSet(ref) <= 1

\* C3: MarshalBinary on a BinaryRef with none of fr, mr, cr set returns a
\* non-nil error.
C3_MarshalUndefinedIsError ==
    (op = "MarshalBinary" /\ NumSet(ref) = 0) => err # NoErr

\* C4: wire layout.  MarshalBinary of a BinaryRef holding exactly one member
\* (content: gabby) returns 33 bytes: 0x01 (feed), 0x02 (message) or 0x03
\* (content), then the 32 bytes of the member; refFromPubKey of the all-zero
\* key yields a reference that marshals to 0x01 and 32 zero bytes.
C4_WireLayout ==
    /\ (op = "MarshalBinary" /\ Encodable(ref)) =>
            /\ err = NoErr
            /\ ~panicked
            /\ Len(out) = 33
            /\ out[1] = (IF IsSet(ref.fr) THEN 1 ELSE IF IsSet(ref.mr) THEN 2 ELSE 3)
            /\ SliceFrom(out, 1) = ActiveMember(ref).bytes
            /\ Len(ActiveMember(ref).bytes) = 32
    /\ (op = "refFromPubKey" /\ data = ZeroKey) =>
            /\ err = NoErr
            /\ MarshalBinary(ref).err = NoErr
            /\ MarshalBinary(ref).bytes = <<1>> \o ZeroKey

\* a message reference with a non-zero hash was marshalled
C4_Witness ==
    /\ op = "MarshalBinary"
    /\ Encodable(ref)
    /\ IsSet(ref.mr)
    /\ ref.mr.bytes = Payload(1)
    /\ Len(out) = 33

\* C5: UnmarshalBinary returns the invalid-length error for every input
\* whose length is not 33, whatever its first byte, the unknown-discriminant
\* error for every 33-byte input whose first byte is not 1, 2 or 3, and
\* succeeds only on 33-byte inputs with one of these three first bytes.
C5_RejectsMalformed ==
    op = "UnmarshalBinary" =>
        /\ Len(data) # 33 => err = ErrInvalidLen
        /\ (Len(data) = 33 /\ data[1] \notin {1, 2, 3}) => err = ErrInvalidBinrefType
        /\ err = NoErr => (Len(data) = 33 /\ data[1] \in {1, 2, 3})

\* a 34-byte input with a valid discriminant was rejected for its length
C5_Witness ==
    /\ op = "UnmarshalBinary"
    /\ Len(data) = 34
    /\ data[1] = 1
    /\ err = ErrInvalidLen

\* C6: content algorithm gate.  MarshalBinary of a BinaryRef whose only
\* member is a content reference of another algorithm than gabby returns an
\* error and no bytes; a successful UnmarshalBinary of a 0x03 input leaves
\* cr set to a content reference of the gabby algorithm.
C6_ContentAlgoGate ==
    /\ (op = "MarshalBinary" /\ NumSet(ref) = 1 /\ IsSet(ref.cr)
            /\ ref.cr.algo # RefAlgoContentGabby) =>
            (err # NoErr /\ ~panicked /\ out = <<>>)
    /\ (op = "UnmarshalBinary" /\ Len(data) = 33 /\ data[1] = 3 /\ err = NoErr) =>
            (IsSet(ref.cr) /\ ref.cr.algo = RefAlgoContentGabby)

\* a content reference of another algorithm was refused by MarshalBinary
C6_Witness ==
    /\ op = "MarshalBinary"
    /\ NumSet(ref) = 1
    /\ IsSet(ref.cr)
    /\ ref.cr.algo = RefAlgoOther
    /\ err = ErrMarshalContentAlgo

\* C7: for every BinaryRef with more than one of fr, mr, cr set, both
\* MarshalBinary and MarshalJSON return the multiple-references error and
\* emit no bytes.
C7_MultipleDetected ==
    (op \in {"MarshalBinary", "MarshalJSON"} /\ NumSet(ref) > 1) =>
        (err = ErrMultipleRefs /\ out = <<>> /\ json = <<>>)

\* C8: GetRef(t) returns without error if and only if exactly one member is
\* set and its kind is t, and then returns that member; otherwise (other
\* kind, several members, nothing set) it returns an error and no
\* reference, and the error of a kind that differs is the mismatch error.
C8_TypedRetrieval ==
    op = "GetRef" =>
        /\ (err = NoErr) <=> (NumSet(ref) = 1 /\ ActiveKind(ref) = want)
        /\ err = NoErr => (ret = ActiveMember(ref) /\ IsSet(ret))
        /\ err # NoErr => ret = NilRef
        /\ (NumSet(ref) = 1 /\ ActiveKind(ref) # want) => err = ErrGetRefDiffers

\* GetRef(Feed) on a message reference failed with the mismatch error
C8_Witness ==
    /\ op = "GetRef"
    /\ want = RefTypeFeed
    /\ NumSet(ref) = 1
    /\ IsSet(ref.mr)
    /\ err = ErrGetRefDiffers

\* the reference a valid 33-byte input d decodes to
Decoded(d) ==
    [type |-> CASE d[1] = 1 -> "FeedRef" [] d[1] = 2 -> "MessageRef" [] OTHER -> "ContentRef",
     algo |-> CASE d[1] = 1 -> RefAlgoFeedGabby [] d[1] = 2 -> RefAlgoMessageGabby
                [] OTHER -> RefAlgoContentGabby,
     bytes |-> SliceFrom(d, 1)]

\* the member of r that the first byte of d selects
Selected(r, d) ==
    CASE d[1] = 1 -> r.fr [] d[1] = 2 -> r.mr [] OTHER -> r.cr

\* the error MarshalBinary returns for r, stated from the members
MarshalFails(r) ==
    \/ NumSet(r) > 1
    \/ NumSet(r) = 1 /\ IsSet(r.cr) /\ r.cr.algo # RefAlgoContentGabby

\* C9: ConvertExt(v) panics exactly when v is not a *BinaryRef or
\* MarshalBinary on it returns an error, and otherwise returns the bytes of
\* MarshalBinary; UpdateExt(dst, src) panics exactly when dst is not a
\* *BinaryRef, src is not a []byte or UnmarshalBinary(src) returns an error,
\* and otherwise leaves dst holding the decoded reference.
C9_ExtFailuresFatal ==
    /\ op = "ConvertExt" =>
            /\ panicked <=> (~isBinRef \/ MarshalFails(ref))
            /\ ~panicked => out = MarshalBinary(ref).bytes
            /\ (~panicked /\ NumSet(ref) = 1) => Len(out) = 33
    /\ op = "UpdateExt" =>
            /\ panicked <=> (\/ ~isBinRef
                             \/ ~isBytes
                             \/ Len(data) # 33
                             \/ data[1] \notin {1, 2, 3})
            /\ ~panicked => Selected(ref, data) = Decoded(data)

\* ConvertExt was handed a *BinaryRef whose MarshalBinary fails, and panicked
C9_Witness ==
    /\ op = "ConvertExt"
    /\ isBinRef
    /\ MarshalFails(ref)
    /\ panicked

\* C10: a call of UnmarshalBinary that returns an error leaves fr, mr and
\* cr as they were before the call, and a call that succeeds changes only
\* the member the first byte of the input selects.
C10_FailedUnmarshalKeepsReceiver ==
    [][op' = "UnmarshalBinary" =>
            /\ err' # NoErr => ref' = ref
            /\ err' = NoErr =>
                    /\ data'[1] # 1 => ref'.fr = ref.fr
                    /\ data'[1] # 2 => ref'.mr = ref.mr
                    /\ data'[1] # 3 => ref'.cr = ref.cr
                    /\ Selected(ref', data') = Decoded(data')]_vars

\* UnmarshalBinary failed on a receiver that holds a reference
C10_Witness ==
    /\ op = "UnmarshalBinary"
    /\ err # NoErr
    /\ NumSet(ref) >= 1

====
